---- MODULE Spec2Model ----
(***************************************************************************)
(* Subscription ledger of render_unified.py: the Paystack webhook and      *)
(* redirect endpoints, grant_or_renew, link_telegram and the expiry        *)
(* checker loop, as a state machine over the persisted users.json ledger.  *)
(*                                                                         *)
(* The ledger is a Python dict serialised to JSON; iteration order is      *)
(* insertion order, so it is modelled as a sequence of records in          *)
(* insertion order (one record per email).                                 *)
(***************************************************************************)
EXTENDS Integers, Sequences, FiniteSets, TLC

(***************************************************************************)
(* Bounds of the model                                                     *)
(***************************************************************************)
\* number of clock steps the wall clock may take
MaxTicks == 3
\* time.time() when the process starts (seconds)
StartTime == 1700000000

(***************************************************************************)
(* Configuration (module-level constants read from the environment)        *)
(***************************************************************************)
DAILY_PLAN_AMOUNT == 50000
\* durations and alert window are environment settings; the model runs a
\* deployment with short, distinct windows so that renewals, reminders and
\* expiries all occur within MaxTicks clock steps
DAILY_PLAN_DURATION == 2
WEEKEND_PLAN_DURATION == 1
EXPIRY_ALERT_DAYS == 1
\* 24 * 3600, the seconds in one day
SecondsPerDay == 86400
\* time.sleep(3600) between two passes of the expiry checker
SweepInterval == 3600
\* granularity of the modelled wall clock: half a day
ClockStep == 12 * SweepInterval
\* "chat_id": None
NoChat == 0
\* a key absent from a JSON object / a None or empty string value
Absent == ""
\* the gateway's verified data carries no "amount" key
NoAmount == -1
\* BOT_API_SEND is set (ACCESS_BOT_TOKEN configured) and ADMIN_TELEGRAM_ID is set
BOT_API_SEND == TRUE
\* DAILY_GROUP_LINK / WEEKEND_GROUP_LINK are configured
GROUP_LINKS == TRUE

Emails == {"a@x.com", "b@x.com"}
References == {"R1", "R2"}
\* raw "amount" values of a payload (minor units); 0 is also the default
\* of data.get("amount", 0)
Amounts == {50000, 5000000}

VARIABLES
    users,        \* the persisted ledger (users.json), in insertion order
    now,          \* int(time.time())
    wakeAt,       \* the time at which the expiry checker's sleep ends
    webhookSecret,\* PAYSTACK_WEBHOOK_SECRET is configured
    secretKey,    \* PAYSTACK_SECRET_KEY is configured
    sent,         \* notifications attempted by the last step, in order
    last,         \* the last request handled and the response it got
    expiryNoted,  \* per email: an expiry notification since its last grant
    reminderNoted,\* per email: a reminder notification since its last grant
    applied,      \* per email: the references granted to it, latest first
    sweeper,      \* the expiry checker thread: where it is, what it loaded
    workers       \* request threads inside grant_or_renew

vars == <<users, now, wakeAt, webhookSecret, secretKey, sent, last,
          expiryNoted, reminderNoted, applied, sweeper, workers>>

Max(a, b) == IF a >= b THEN a ELSE b

(***************************************************************************)
(* Ledger helpers                                                          *)
(***************************************************************************)
\* users.get(email): index of the record of email, 0 when there is none
Lookup(us, email) ==
    IF \E i \in 1..Len(us) : us[i].email = email
    THEN CHOOSE i \in 1..Len(us) : us[i].email = email
    ELSE 0

HasRecord(us, email) == Lookup(us, email) # 0
RecordOf(us, email) == us[Lookup(us, email)]

(***************************************************************************)
(* Persistence: load_users / save_users.  The variable users is the ledger *)
(* as load_users reads it from users.json.                                 *)
(***************************************************************************)
\* how the file operations and the notification posts of one handler go
NoFault == [load |-> "ok", save |-> "ok", notify |-> "ok"]
\* the handler returned before touching the file
NoIo == [load |-> "none", save |-> "none", notify |-> "none"]
\* read_text or json.loads may raise
LoadFaults == [load : {"ok", "fail"}, save : {"ok"}, notify : {"ok"}]
\* write_text may raise before the file is opened for writing, or after
\* it has been truncated
SaveFaults == [load : {"ok"}, save : {"ok", "fail_intact", "fail_truncated"},
               notify : {"ok"}]
\* requests.post may raise
NotifyFaults == [load : {"ok"}, save : {"ok"}, notify : {"ok", "fail"}]
Faults == LoadFaults \cup SaveFaults
PostFaults == SaveFaults \cup NotifyFaults

IoFor(reached, ios) == IF reached THEN ios ELSE {NoIo}

\* load_users(): the ledger, or {} when the file cannot be read or parsed
load_users(file, io) == IF io.load = "ok" THEN file ELSE <<>>

\* save_users(us): the file after write_text.  A write that raises leaves
\* the old content, or a truncated file that load_users reads as {}
save_users(file, us, io) ==
    IF io.save = "ok" THEN us
    ELSE IF io.save = "fail_intact" THEN file
    ELSE <<>>

\* a notification attempt
Note(kind, email, detail) == [kind |-> kind, email |-> email, detail |-> detail]

duration_days(plan) ==
    IF plan = "daily" THEN DAILY_PLAN_DURATION ELSE WEEKEND_PLAN_DURATION

\* grant_or_renew with the renewal always restarting the window from now
grant_or_renew_restart(us, t, email, plan, reference) ==
    LET expires_at == t + duration_days(plan) * SecondsPerDay
        i == Lookup(us, email)
        fresh == [email |-> email, plan |-> plan,
                  paystack_reference |-> reference,
                  expires_at |-> expires_at, active |-> TRUE,
                  chat_id |-> NoChat]
    IN  IF i # 0 /\ us[i].expires_at > t
        THEN [users |-> [us EXCEPT ![i] =
                            [@ EXCEPT !.plan = plan,
                                      !.paystack_reference = reference,
                                      !.expires_at = expires_at,
                                      !.active = TRUE]],
              action |-> "renewed"]
        ELSE [users |-> IF i # 0 THEN [us EXCEPT ![i] = fresh]
                                 ELSE Append(us, fresh),
              action |-> "activated"]

\* grant_or_renew with the renewal stacking the duration on the remaining time
grant_or_renew_stack(us, t, email, plan, reference) ==
    LET expires_at == t + duration_days(plan) * SecondsPerDay
        i == Lookup(us, email)
        fresh == [email |-> email, plan |-> plan,
                  paystack_reference |-> reference,
                  expires_at |-> expires_at, active |-> TRUE,
                  chat_id |-> NoChat]
    IN  IF i # 0 /\ us[i].expires_at > t
        THEN [users |-> [us EXCEPT ![i] =
                            [@ EXCEPT !.plan = plan,
                                      !.paystack_reference = reference,
                                      !.expires_at = us[i].expires_at
                                          + duration_days(plan) * SecondsPerDay,
                                      !.active = TRUE]],
              action |-> "renewed"]
        ELSE [users |-> IF i # 0 THEN [us EXCEPT ![i] = fresh]
                                 ELSE Append(us, fresh),
              action |-> "activated"]

\* grant_or_renew with a lapsed record renewed instead of overwritten
grant_or_renew_keep(us, t, email, plan, reference) ==
    LET expires_at == t + duration_days(plan) * SecondsPerDay
        i == Lookup(us, email)
        fresh == [email |-> email, plan |-> plan,
                  paystack_reference |-> reference,
                  expires_at |-> expires_at, active |-> TRUE,
                  chat_id |-> NoChat]
    IN  IF i # 0 /\ us[i].expires_at >= t
        THEN [users |-> [us EXCEPT ![i] =
                            [@ EXCEPT !.plan = plan,
                                      !.paystack_reference = reference,
                                      !.expires_at = Max(us[i].expires_at, expires_at),
                                      !.active = TRUE]],
              action |-> "renewed"]
        ELSE [users |-> IF i # 0 THEN [us EXCEPT ![i] = fresh]
                                 ELSE Append(us, fresh),
              action |-> "activated"]

\* grant_or_renew with a renewal keeping the reference of the first payment
grant_or_renew_keepref(us, t, email, plan, reference) ==
    LET expires_at == t + duration_days(plan) * SecondsPerDay
        i == Lookup(us, email)
        fresh == [email |-> email, plan |-> plan,
                  paystack_reference |-> reference,
                  expires_at |-> expires_at, active |-> TRUE,
                  chat_id |-> NoChat]
    IN  IF i # 0 /\ us[i].expires_at > t
        THEN [users |-> [us EXCEPT ![i] =
                            [@ EXCEPT !.plan = plan,
                                      !.expires_at = Max(us[i].expires_at, expires_at),
                                      !.active = TRUE]],
              action |-> "renewed"]
        ELSE [users |-> IF i # 0 THEN [us EXCEPT ![i] = fresh]
                                 ELSE Append(us, fresh),
              action |-> "activated"]

(***************************************************************************)
(* grant_or_renew(email, plan, reference) on ledger us at time t:          *)
(* the ledger saved, the action and the admin message                      *)
(***************************************************************************)
grant_or_renew(us, t, email, plan, reference) ==
    LET expires_at == t + duration_days(plan) * SecondsPerDay
        i == Lookup(us, email)
        fresh == [email |-> email, plan |-> plan,
                  paystack_reference |-> reference,
                  expires_at |-> expires_at, active |-> TRUE,
                  chat_id |-> NoChat]
    IN  IF i # 0 /\ us[i].expires_at > t
        THEN [users |-> [us EXCEPT ![i] =
                            [@ EXCEPT !.plan = plan,
                                      !.paystack_reference = reference,
                                      !.expires_at = Max(us[i].expires_at, expires_at),
                                      !.active = TRUE]],
              action |-> "renewed"]
        ELSE [users |-> IF i # 0 THEN [us EXCEPT ![i] = fresh]
                                 ELSE Append(us, fresh),
              action |-> "activated"]

(***************************************************************************)
(* Requests                                                                *)
(***************************************************************************)
\* The x-paystack-signature header of a request, relative to its raw body:
\* the HMAC-SHA512 of that body under the configured secret, the HMAC of
\* that body under another key, the HMAC under the configured secret of a
\* body that differs in one byte, or no header at all.
Signatures == {"hmac(secret,body)", "hmac(other,body)", "hmac(secret,body1)", Absent}
BadSignatures == Signatures \ {"hmac(secret,body)"}

\* hmac.new(PAYSTACK_WEBHOOK_SECRET, body, sha512).hexdigest()
computed_signature == "hmac(secret,body)"

\* verify_signature accepting any signature
verify_signature_off(secretSet, sig) == TRUE

\* verify_signature(req)
verify_signature(secretSet, sig) ==
    IF ~secretSet THEN TRUE ELSE sig = computed_signature

\* the JSON body of a webhook request
Event(shape, event, reference, customer_email, flat_email, amount, plan_type) ==
    [shape |-> shape, event |-> event, reference |-> reference,
     customer_email |-> customer_email, flat_email |-> flat_email,
     amount |-> amount, plan_type |-> plan_type]

\* a charge.success event with the email in the customer object
Charge(reference, email, amount) ==
    Event("event", "charge.success", reference, email, Absent, amount, Absent)

\* charge.success events lacking the reference, or the email
IncompleteEvents ==
    {Charge(Absent, "a@x.com", 5000000), Charge("R1", Absent, 5000000)}

\* an event of another type
OtherEvents ==
    {Event("event", "charge.failed", "R1", "a@x.com", Absent, 5000000, Absent)}

\* an empty object, and a body that does not parse
NonEvents ==
    {Event("empty", Absent, Absent, Absent, Absent, 0, Absent),
     Event("invalid_json", Absent, Absent, Absent, Absent, 0, Absent)}

\* the email in the customer object, in the flat field, or in both
EmailFields == {<<"a@x.com", Absent>>, <<Absent, "b@x.com">>, <<"a@x.com", "b@x.com">>}

\* complete charge.success events: without metadata, and with a plan_type
ChargeEvents ==
    {Event("event", "charge.success", "R1", ef[1], ef[2], a, Absent) :
        ef \in EmailFields, a \in Amounts}
    \cup {Event("event", "charge.success", "R1", "a@x.com", Absent, 5000000, "vip"),
          Event("event", "charge.success", "R1", "a@x.com", Absent, 50000, "daily")}

\* the webhook requests, as <<signature header, body>>: every body with
\* its valid signature, and bodies with a signature that does not match
Requests ==
    {<<"hmac(secret,body)", ev>> :
        ev \in ChargeEvents \cup IncompleteEvents \cup OtherEvents \cup NonEvents}
    \cup {<<sig, ev>> : sig \in BadSignatures,
                        ev \in {Charge("R1", "a@x.com", 5000000),
                                Event("invalid_json", Absent, Absent, Absent,
                                      Absent, 0, Absent)}}

\* the JSON bodies of link requests: each of the two keys for the chat id
\* and for the reference present or not
LinkBodies ==
    [chat_id : {NoChat, 123}, telegram_id : {NoChat, 456},
     reference : References \cup {Absent},
     paystack_reference : {Absent, "R2"}]

\* link requests as the Access bot sends them, for one chat
BotLinkBodies ==
    [chat_id : {123}, telegram_id : {NoChat},
     reference : References, paystack_reference : {Absent}]

\* the payments of one subscriber: signed charge events with either
\* reference and either amount, and a forged one
PaymentRequests ==
    {<<"hmac(secret,body)", Charge(r, "a@x.com", a)>> :
        r \in References, a \in Amounts}
    \cup {<<"hmac(other,body)", Charge("R1", "a@x.com", 5000000)>>}

\* the payments of two subscribers, who may pay under the same reference
LedgerRequests ==
    {<<"hmac(secret,body)", Charge(r, "a@x.com", 50000)>> : r \in References}
    \cup {<<"hmac(secret,body)", Charge("R1", "b@x.com", 50000)>>}

\* one payment of each of two subscribers
FaultRequests ==
    {<<"hmac(secret,body)", Charge("R1", e, 50000)>> : e \in Emails}

\* the link request of the chat that paid under R1
FaultLinkBodies ==
    {[chat_id |-> 123, telegram_id |-> NoChat, reference |-> "R1",
      paystack_reference |-> Absent]}

\* what GET /transaction/verify/<reference> does: the call raises (network
\* error, timeout, body that is not JSON), answers without success, or
\* answers success with the gateway's own email and amount
GatewayOutcomes ==
    {[outcome |-> "raise", email |-> Absent, amount |-> NoAmount],
     [outcome |-> "failed", email |-> "b@x.com", amount |-> 5000000]}
    \cup [outcome : {"success"}, email : {"b@x.com", Absent},
          amount : {NoAmount, 5000000}]

\* the gateway confirms the payment as notified, or does not
PlainGateway ==
    {[outcome |-> "success", email |-> Absent, amount |-> NoAmount],
     [outcome |-> "failed", email |-> Absent, amount |-> NoAmount]}

\* the gateway confirms the payment as notified
Confirming == [outcome |-> "success", email |-> Absent, amount |-> NoAmount]

\* no call is made when PAYSTACK_SECRET_KEY is not configured
NoGateway == [outcome |-> "none", email |-> Absent, amount |-> NoAmount]

\* the outcomes of the gateway call when the handler makes it
GatewayFor(called, outcomes) == IF called THEN outcomes ELSE {NoGateway}

\* a or b  (Python: the first operand unless it is falsy)
Or(a, b) == IF a # Absent THEN a ELSE b

\* the plan with a strict comparison against the threshold
plan_of_amount_strict(amount) ==
    IF amount > DAILY_PLAN_AMOUNT THEN "daily" ELSE "weekend"

\* "daily" if amount >= DAILY_PLAN_AMOUNT else "weekend"
plan_of_amount(amount) ==
    IF amount >= DAILY_PLAN_AMOUNT THEN "daily" ELSE "weekend"

Reject(code, body) ==
    [code |-> code, body |-> body, apply |-> FALSE,
     email |-> Absent, plan |-> Absent, reference |-> Absent]

\* handle_paystack_event taking the gateway's data whatever its status
handle_paystack_event_open(ev, keySet, gw) ==
    IF ev.shape = "empty" THEN Reject(400, "empty payload")
    ELSE IF ev.event # "charge.success" THEN Reject(200, "ignored")
    ELSE
      LET reference == ev.reference
          email0 == Or(ev.customer_email, ev.flat_email)
          amount0 == ev.amount \div 100
      IN  IF reference = Absent \/ email0 = Absent
          THEN Reject(400, "missing reference or email")
          ELSE IF keySet /\ gw.outcome = "raise"
          THEN Reject(400, "verification error")
          ELSE
            LET email == IF keySet THEN Or(gw.email, email0) ELSE email0
                amount == IF keySet
                          THEN (IF gw.amount # NoAmount THEN gw.amount
                                ELSE amount0 * 100) \div 100
                          ELSE amount0
                plan == IF ev.plan_type # Absent THEN ev.plan_type
                        ELSE plan_of_amount(amount)
            IN  [code |-> 200, body |-> "ok", apply |-> TRUE,
                 email |-> email, plan |-> plan, reference |-> reference]

(***************************************************************************)
(* handle_paystack_event(event_json): the response and, when the event is  *)
(* accepted, the arguments of the grant_or_renew call                       *)
(***************************************************************************)
handle_paystack_event(ev, keySet, gw) ==
    IF ev.shape = "empty" THEN Reject(400, "empty payload")
    ELSE IF ev.event # "charge.success" THEN Reject(200, "ignored")
    ELSE
      LET reference == ev.reference
          email0 == Or(ev.customer_email, ev.flat_email)
          amount0 == ev.amount \div 100
      IN  IF reference = Absent \/ email0 = Absent
          THEN Reject(400, "missing reference or email")
          ELSE IF keySet /\ gw.outcome = "raise"
          THEN Reject(400, "verification error")
          ELSE IF keySet /\ gw.outcome # "success"
          THEN Reject(400, "verification failed")
          ELSE
            LET email == IF keySet THEN Or(gw.email, email0) ELSE email0
                amount == IF keySet
                          THEN (IF gw.amount # NoAmount THEN gw.amount
                                ELSE amount0 * 100) \div 100
                          ELSE amount0
                plan == IF ev.plan_type # Absent THEN ev.plan_type
                        ELSE plan_of_amount(amount)
            IN  [code |-> 200, body |-> "ok", apply |-> TRUE,
                 email |-> email, plan |-> plan, reference |-> reference]

\* POST /webhook/paystack: signature, then JSON, then the event
webhook_response(secretSet, keySet, sig, ev, gw) ==
    IF ~verify_signature(secretSet, sig) THEN Reject(400, "Invalid signature")
    ELSE IF ev.shape = "invalid_json" THEN Reject(400, "invalid json")
    ELSE handle_paystack_event(ev, keySet, gw)

\* POST /stakeaware_secure_test_2025: JSON, then signature, then the event
legacy_response(secretSet, keySet, sig, ev, gw) ==
    IF ev.shape = "invalid_json" THEN Reject(400, "invalid json")
    ELSE IF secretSet /\ ~verify_signature(secretSet, sig)
    THEN Reject(400, "Invalid signature")
    ELSE handle_paystack_event(ev, keySet, gw)

\* paystack_redirect granting on any answer of the gateway that
\* carries an email
redirect_response_unchecked(keySet, ref, gw) ==
    IF ref = Absent THEN Reject(400, "Missing reference")
    ELSE IF ~keySet THEN Reject(200, "Payment processed")
    ELSE IF gw.outcome = "raise" THEN Reject(500, "Error contacting Paystack")
    ELSE
      LET email == gw.email
          amount == (IF gw.amount # NoAmount THEN gw.amount ELSE 0) \div 100
      IN  IF email = Absent
          THEN Reject(400, "Could not determine customer email from payment")
          ELSE [code |-> 200, body |-> "Payment successful", apply |-> TRUE,
                email |-> email, plan |-> plan_of_amount(amount),
                reference |-> ref]

\* GET /paystack_redirect?reference=ref
redirect_response(keySet, ref, gw) ==
    IF ref = Absent THEN Reject(400, "Missing reference")
    ELSE IF ~keySet THEN Reject(200, "Payment processed")
    ELSE IF gw.outcome = "raise" THEN Reject(500, "Error contacting Paystack")
    ELSE IF gw.outcome # "success" THEN Reject(400, "Payment verification failed")
    ELSE
      LET email == gw.email
          amount == (IF gw.amount # NoAmount THEN gw.amount ELSE 0) \div 100
      IN  IF email = Absent
          THEN Reject(400, "Could not determine customer email from payment")
          ELSE [code |-> 200, body |-> "Payment successful", apply |-> TRUE,
                email |-> email, plan |-> plan_of_amount(amount),
                reference |-> ref]

(***************************************************************************)
(* link_telegram                                                           *)
(***************************************************************************)
\* the last matching record instead of the first (a loop without break)
last_match(us, reference) ==
    IF \E i \in 1..Len(us) : us[i].paystack_reference = reference
    THEN CHOOSE i \in 1..Len(us) :
            /\ us[i].paystack_reference = reference
            /\ \A j \in (i + 1)..Len(us) : us[j].paystack_reference # reference
    ELSE 0

\* the first record, in iteration order, whose paystack_reference is the
\* reference; 0 when there is none
first_match(us, reference) ==
    IF \E i \in 1..Len(us) : us[i].paystack_reference = reference
    THEN CHOOSE i \in 1..Len(us) :
            /\ us[i].paystack_reference = reference
            /\ \A j \in 1..(i - 1) : us[j].paystack_reference # reference
    ELSE 0

\* POST /link_telegram with chat id chat and reference: the response, the
\* ledger saved and the message sent to the user
link_telegram(us, chat, reference) ==
    LET i == first_match(us, reference)
    IN  IF chat = NoChat \/ reference = Absent
        THEN [code |-> 400, body |-> "chat_id and reference are required",
              email |-> Absent, users |-> us, notes |-> <<>>]
        ELSE IF i = 0
        THEN [code |-> 404, body |-> "user not found",
              email |-> Absent, users |-> us, notes |-> <<>>]
        ELSE [code |-> 200, body |-> "linked", email |-> us[i].email,
              users |-> [us EXCEPT ![i] = [@ EXCEPT !.chat_id = chat,
                                                    !.active = TRUE]],
              notes |-> IF BOT_API_SEND /\ GROUP_LINKS
                        THEN <<Note("linked", us[i].email, us[i].plan)>>
                        ELSE <<>>]

(***************************************************************************)
(* _expiry_checker_loop: one pass over the ledger at time t                *)
(***************************************************************************)
\* an alert window that also takes the second of expiry and later
in_alert_window_late(u, t) ==
    u.expires_at - t <= EXPIRY_ALERT_DAYS * SecondsPerDay

\* 0 < exp - now <= EXPIRY_ALERT_DAYS * 24 * 3600
in_alert_window(u, t) ==
    /\ 0 < u.expires_at - t
    /\ u.expires_at - t <= EXPIRY_ALERT_DAYS * SecondsPerDay

\* the record is looked at by the pass: u.get("active") and exp
considered(u) == u.active /\ u.expires_at # 0

reminded(u, t) == considered(u) /\ in_alert_window(u, t)
\* a record expiring only once its expiry lies strictly in the past
expired_strict(u, t) == considered(u) /\ u.expires_at < t

\* if exp <= now
expired(u, t) == considered(u) /\ u.expires_at <= t

\* the notifications of the pass for one record, in order
record_notes(u, t) ==
    (IF reminded(u, t)
     THEN IF u.chat_id # NoChat
          THEN <<Note("reminder", u.email, u.plan)>>
          ELSE <<Note("expires_soon", u.email, u.paystack_reference)>>
     ELSE <<>>)
    \o (IF expired(u, t) THEN <<Note("expired", u.email, Absent)>> ELSE <<>>)

RECURSIVE pass_notes(_, _, _)
pass_notes(us, t, i) ==
    IF i > Len(us) THEN <<>>
    ELSE record_notes(us[i], t) \o pass_notes(us, t, i + 1)

expiry_checker_pass(us, t) ==
    [users |-> [i \in 1..Len(us) |->
                   IF expired(us[i], t) THEN [us[i] EXCEPT !.active = FALSE]
                   ELSE us[i]],
     changed |-> \E i \in 1..Len(us) : expired(us[i], t),
     notes |-> pass_notes(us, t, 1)]

(***************************************************************************)
(* The state machine                                                       *)
(***************************************************************************)
\* no request: the last step was the clock or the expiry checker
NoRequest(op) ==
    [op |-> op, code |-> 0, body |-> Absent, email |-> Absent,
     plan |-> Absent, reference |-> Absent, action |-> Absent,
     chat |-> NoChat, sig_match |-> FALSE, shape |-> Absent,
     etype |-> Absent, has_ref |-> FALSE, has_email |-> FALSE,
     has_plan |-> FALSE, amount |-> 0, prior |-> Absent,
     ev_email |-> Absent, ev_amount |-> 0,
     gw |-> "none", gw_email |-> Absent, gw_amount |-> NoAmount,
     load |-> "none", save |-> "none", notify |-> "none"]

\* the expiry checker thread asleep in time.sleep(3600)
SweeperAsleep == [pc |-> "sleep", users |-> <<>>, t |-> 0, changed |-> FALSE]

\* the request threads
Workers == {1, 2}
IdleWorker == [pc |-> "idle", email |-> Absent, plan |-> Absent,
               reference |-> Absent, users |-> <<>>, t |-> 0]

NoneNoted == [e \in Emails |-> FALSE]

\* a fresh deployment: empty ledger, the expiry checker about to run
Fresh ==
    /\ users = <<>>
    /\ now = StartTime
    /\ wakeAt = StartTime
    /\ sent = <<>>
    /\ last = NoRequest("init")
    /\ expiryNoted = NoneNoted
    /\ reminderNoted = NoneNoted
    /\ applied = [e \in Emails |-> <<>>]
    /\ sweeper = SweeperAsleep
    /\ workers = [w \in Workers |-> IdleWorker]

\* a deployment with both Paystack secrets configured
Init ==
    /\ Fresh
    /\ webhookSecret = TRUE
    /\ secretKey = TRUE

\* any configuration of the two secrets
InitHooks ==
    /\ Fresh
    /\ webhookSecret \in BOOLEAN
    /\ secretKey \in BOOLEAN

\* the raw amount (minor units) the handler works from
raw_amount(ev, keySet, gw) ==
    IF keySet /\ gw.amount # NoAmount THEN gw.amount ELSE ev.amount

\* the record of email as a grant finds it: none, live (expires_at > now),
\* lapsed (window elapsed, still flagged active) or expired (deactivated)
prior_state(us, t, email) ==
    IF ~HasRecord(us, email) THEN "none"
    ELSE IF RecordOf(us, email).expires_at > t THEN "live"
    ELSE IF RecordOf(us, email).active THEN "lapsed"
    ELSE "expired"

\* reference r becomes the latest entry of the history h
MoveToFront(h, r) == <<r>> \o SelectSeq(h, LAMBDA x : x # r)

\* the save of grant_or_renew swallowing its exception
grant_outcome_swallowed(res, action, io) ==
    [code |-> res.code, body |-> res.body, action |-> action,
     notes |-> <<Note("granted", res.email, action)>>]

\* send_admin_message letting the exception of its post leave the handler
grant_outcome_fatal(res, action, io) ==
    IF io.save = "ok" /\ io.notify = "ok"
    THEN [code |-> res.code, body |-> res.body, action |-> action,
          notes |-> <<Note("granted", res.email, action)>>]
    ELSE [code |-> 500, body |-> "Internal Server Error", action |-> Absent,
          notes |-> IF io.save = "ok"
                    THEN <<Note("granted", res.email, action)>> ELSE <<>>]

\* how grant_or_renew ends: after save_users the admin message and the
\* handler's response; an exception of save_users leaves the handler and
\* Flask answers 500
grant_outcome(res, action, io) ==
    IF io.save = "ok"
    THEN [code |-> res.code, body |-> res.body, action |-> action,
          notes |-> <<Note("granted", res.email, action)>>]
    ELSE [code |-> 500, body |-> "Internal Server Error", action |-> Absent,
          notes |-> <<>>]

\* the effect of a response on the ledger: the grant, when there is one,
\* its load, its save and its admin message
Respond(op, res, ghost, ios) ==
    \E io \in IoFor(res.apply, ios) :
    LET us == load_users(users, io)
        g == grant_or_renew(us, now, res.email, res.plan, res.reference)
        out == grant_outcome(res, g.action, io)
        done == res.apply /\ out.action # Absent
    IN  /\ users' = IF res.apply THEN save_users(users, g.users, io) ELSE users
        /\ sent' = IF res.apply THEN out.notes ELSE <<>>
        /\ expiryNoted' = IF done
                          THEN [expiryNoted EXCEPT ![res.email] = FALSE]
                          ELSE expiryNoted
        /\ reminderNoted' = IF done
                            THEN [reminderNoted EXCEPT ![res.email] = FALSE]
                            ELSE reminderNoted
        /\ applied' = IF done
                      THEN [applied EXCEPT ![res.email] =
                                MoveToFront(@, res.reference)]
                      ELSE applied
        /\ last' = [ghost EXCEPT
                      !.op = op,
                      !.code = IF res.apply THEN out.code ELSE res.code,
                      !.body = IF res.apply THEN out.body ELSE res.body,
                      !.email = res.email, !.plan = res.plan,
                      !.reference = res.reference,
                      !.action = IF res.apply THEN out.action ELSE Absent,
                      !.has_plan = IF res.apply THEN ghost.has_plan ELSE FALSE,
                      !.amount = IF res.apply THEN ghost.amount ELSE 0,
                      !.prior = IF res.apply
                                THEN prior_state(us, now, res.email)
                                ELSE Absent,
                      !.load = io.load, !.save = io.save,
                      !.notify = IF res.apply /\ out.notes # <<>>
                                 THEN io.notify ELSE "none"]
        /\ UNCHANGED <<now, wakeAt, webhookSecret, secretKey, sweeper, workers>>

\* what the request looked like: whether its signature header is the HMAC
\* of its body, the shape of the body, and the fields the event carries
RequestGhost(sig, ev, gw) ==
    [NoRequest("request") EXCEPT
        !.sig_match = (sig = "hmac(secret,body)"),
        !.shape = ev.shape,
        !.etype = ev.event,
        !.has_ref = (ev.reference # Absent),
        !.has_email = (ev.customer_email # Absent \/ ev.flat_email # Absent),
        !.has_plan = (ev.plan_type # Absent),
        !.amount = raw_amount(ev, secretKey, gw),
        !.ev_email = Or(ev.customer_email, ev.flat_email),
        !.ev_amount = ev.amount,
        !.gw = gw.outcome, !.gw_email = gw.email, !.gw_amount = gw.amount]

\* the request reaches handle_paystack_event: on both webhook routes the
\* signature has verified and the body has parsed
request_parsed(secretSet, sig, ev) ==
    verify_signature(secretSet, sig) /\ ev.shape # "invalid_json"

\* handle_paystack_event reaches the verify-by-reference call
event_verified(ev, keySet) ==
    /\ keySet
    /\ ev.shape = "event"
    /\ ev.event = "charge.success"
    /\ ev.reference # Absent
    /\ Or(ev.customer_email, ev.flat_email) # Absent

\* paystack_redirect reaches the verify-by-reference call
redirect_verified(ref, keySet) == ref # Absent /\ keySet

webhook_paystack(reqs, outcomes, ios) ==
    \E req \in reqs :
    \E gw \in GatewayFor(request_parsed(webhookSecret, req[1], req[2])
                            /\ event_verified(req[2], secretKey), outcomes) :
        Respond("webhook",
                webhook_response(webhookSecret, secretKey, req[1], req[2], gw),
                RequestGhost(req[1], req[2], gw), ios)

legacy_webhook(reqs, outcomes, ios) ==
    \E req \in reqs :
    \E gw \in GatewayFor(request_parsed(webhookSecret, req[1], req[2])
                            /\ event_verified(req[2], secretKey), outcomes) :
        Respond("legacy",
                legacy_response(webhookSecret, secretKey, req[1], req[2], gw),
                RequestGhost(req[1], req[2], gw), ios)

paystack_redirect(refs, outcomes, ios) ==
    \E ref \in refs :
    \E gw \in GatewayFor(redirect_verified(ref, secretKey), outcomes) :
        Respond("redirect", redirect_response(secretKey, ref, gw),
                [NoRequest("request") EXCEPT
                    !.has_ref = (ref # Absent),
                    !.amount = IF gw.amount # NoAmount THEN gw.amount ELSE 0,
                    !.gw = gw.outcome, !.gw_email = gw.email,
                    !.gw_amount = gw.amount], ios)

\* POST /link_telegram with a JSON body carrying chat_id or telegram_id and
\* reference or paystack_reference
link_request(bodies, ios) ==
    \E data \in bodies :
        LET chat == IF data.chat_id # NoChat THEN data.chat_id
                    ELSE data.telegram_id
            ref == Or(data.reference, data.paystack_reference)
        IN  \E io \in IoFor(chat # NoChat /\ ref # Absent, ios) :
            LET r == link_telegram(load_users(users, io), chat, ref)
                saving == r.code = 200
                failed == saving /\ io.save # "ok"
            IN  /\ users' = IF saving THEN save_users(users, r.users, io)
                             ELSE users
                /\ sent' = IF failed THEN <<>> ELSE r.notes
                /\ last' = [NoRequest("link") EXCEPT
                              !.code = IF failed THEN 500 ELSE r.code,
                              !.body = IF failed THEN "Internal Server Error"
                                       ELSE r.body,
                              !.email = r.email, !.reference = ref,
                              !.chat = chat, !.has_ref = (ref # Absent),
                              !.load = io.load,
                              !.save = IF saving THEN io.save ELSE "none",
                              !.notify = IF ~failed /\ r.notes # <<>>
                                         THEN io.notify ELSE "none"]
                /\ UNCHANGED <<now, wakeAt, webhookSecret, secretKey,
                               expiryNoted, reminderNoted, applied,
                               sweeper, workers>>

\* the expiry checker thread ending on any failed post
pass_outcome_fragile(p, io) ==
    IF \/ p.changed /\ io.save # "ok"
       \/ p.notes # <<>> /\ io.notify # "ok"
    THEN "dead" ELSE "sleep"

\* how a pass ends: the posts are inside try/except, save_users is not, so
\* an exception of save_users ends the thread; otherwise time.sleep(3600)
pass_outcome(p, io) ==
    IF p.changed /\ io.save # "ok" THEN "dead" ELSE "sleep"

\* one pass of the expiry checker, then time.sleep(3600)
expiry_checker_loop(ios) ==
    /\ sweeper.pc = "sleep"
    /\ now >= wakeAt
    /\ \E io \in ios :
       LET p == expiry_checker_pass(load_users(users, io), now)
           kinds(e) == {p.notes[k].kind : k \in {j \in 1..Len(p.notes) :
                                                   p.notes[j].email = e}}
       IN  /\ users' = IF p.changed THEN save_users(users, p.users, io)
                        ELSE users
           /\ sent' = p.notes
           /\ expiryNoted' = [e \in Emails |->
                                expiryNoted[e] \/ "expired" \in kinds(e)]
           /\ reminderNoted' = [e \in Emails |->
                                  \/ reminderNoted[e]
                                  \/ kinds(e) \cap {"reminder", "expires_soon"} # {}]
           /\ sweeper' = [sweeper EXCEPT !.pc = pass_outcome(p, io)]
           /\ last' = [NoRequest("sweep") EXCEPT
                         !.load = io.load,
                         !.save = IF p.changed THEN io.save ELSE "none",
                         !.notify = IF p.notes # <<>> THEN io.notify
                                    ELSE "none"]
    /\ wakeAt' = now + SweepInterval
    /\ UNCHANGED <<now, webhookSecret, secretKey, applied, workers>>

\* the wall clock advances
clock_advance ==
    /\ now + ClockStep <= StartTime + MaxTicks * ClockStep
    /\ now' = now + ClockStep
    /\ sent' = <<>>
    /\ last' = NoRequest("clock")
    /\ UNCHANGED <<users, wakeAt, webhookSecret, secretKey,
                   expiryNoted, reminderNoted, applied, sweeper, workers>>

\* the last modelled time
Horizon == StartTime + MaxTicks * ClockStep

\* time runs on past the horizon: the sleep of the expiry checker ends,
\* and now stays the last modelled time
clock_beyond ==
    /\ now = Horizon
    /\ wakeAt > now
    /\ wakeAt' = now
    /\ sent' = <<>>
    /\ last' = NoRequest("clock")
    /\ UNCHANGED <<users, now, webhookSecret, secretKey,
                   expiryNoted, reminderNoted, applied, sweeper, workers>>

(***************************************************************************)
(* grant_or_renew statement by statement, in a request thread of the       *)
(* threaded Flask server: nothing serialises load_users ... save_users     *)
(***************************************************************************)
\* the grant_or_renew calls of two verified payments
GrantCalls ==
    {[email |-> e, plan |-> "weekend", reference |-> r] :
        e \in Emails, r \in References}

\* lines 125-126: users = load_users(); now = int(time.time())
grant_load(w, calls) ==
    /\ workers[w].pc = "idle"
    /\ \E c \in calls :
          /\ workers' = [workers EXCEPT ![w] =
                           [pc |-> "loaded", email |-> c.email,
                            plan |-> c.plan, reference |-> c.reference,
                            users |-> load_users(users, NoFault), t |-> now]]
          /\ last' = [NoRequest("grant_load") EXCEPT
                        !.email = c.email, !.plan = c.plan,
                        !.reference = c.reference, !.load = "ok"]
    /\ sent' = <<>>
    /\ UNCHANGED <<users, now, wakeAt, webhookSecret, secretKey,
                   expiryNoted, reminderNoted, applied, sweeper>>

\* lines 127-142: the update of the loaded dict, save_users, the admin
\* message
grant_save(w) ==
    LET k == workers[w]
        g == grant_or_renew(k.users, k.t, k.email, k.plan, k.reference)
    IN  /\ k.pc = "loaded"
        /\ users' = save_users(users, g.users, NoFault)
        /\ sent' = <<Note("granted", k.email, g.action)>>
        /\ workers' = [workers EXCEPT ![w] =
                         [k EXCEPT !.pc = "saved", !.users = <<>>]]
        /\ expiryNoted' = [expiryNoted EXCEPT ![k.email] = FALSE]
        /\ reminderNoted' = [reminderNoted EXCEPT ![k.email] = FALSE]
        /\ applied' = [applied EXCEPT ![k.email] = MoveToFront(@, k.reference)]
        /\ last' = [NoRequest("grant_save") EXCEPT
                      !.email = k.email, !.plan = k.plan,
                      !.reference = k.reference, !.action = g.action,
                      !.prior = prior_state(k.users, k.t, k.email),
                      !.save = "ok"]
        /\ UNCHANGED <<now, wakeAt, webhookSecret, secretKey, sweeper>>

\* line 181: the handler answers 200
grant_return(w) ==
    /\ workers[w].pc = "saved"
    /\ workers' = [workers EXCEPT ![w] = IdleWorker]
    /\ sent' = <<>>
    /\ last' = [NoRequest("grant_return") EXCEPT
                  !.code = 200, !.body = "ok", !.email = workers[w].email]
    /\ UNCHANGED <<users, now, wakeAt, webhookSecret, secretKey,
                   expiryNoted, reminderNoted, applied, sweeper>>

(***************************************************************************)
(* _expiry_checker_loop statement by statement, in its own thread next to  *)
(* the request threads                                                     *)
(***************************************************************************)
\* lines 306-308: users = load_users(); now = int(time.time())
sweep_load ==
    /\ sweeper.pc = "sleep"
    /\ now >= wakeAt
    /\ sweeper' = [pc |-> "loaded", users |-> load_users(users, NoFault),
                   t |-> now, changed |-> FALSE]
    /\ sent' = <<>>
    /\ last' = [NoRequest("sweep_load") EXCEPT !.load = "ok"]
    /\ UNCHANGED <<users, now, wakeAt, webhookSecret, secretKey,
                   expiryNoted, reminderNoted, applied, workers>>

\* lines 309-325: the loop over the loaded records, with its reminders and
\* its expiry messages
sweep_scan ==
    /\ sweeper.pc = "loaded"
    /\ LET p == expiry_checker_pass(sweeper.users, sweeper.t)
           kinds(e) == {p.notes[k].kind : k \in {j \in 1..Len(p.notes) :
                                                   p.notes[j].email = e}}
       IN  /\ sweeper' = [sweeper EXCEPT !.pc = "scanned",
                                         !.users = p.users,
                                         !.changed = p.changed]
           /\ sent' = p.notes
           /\ expiryNoted' = [e \in Emails |->
                                expiryNoted[e] \/ "expired" \in kinds(e)]
           /\ reminderNoted' = [e \in Emails |->
                                  \/ reminderNoted[e]
                                  \/ kinds(e) \cap {"reminder", "expires_soon"} # {}]
    /\ last' = NoRequest("sweep_scan")
    /\ UNCHANGED <<users, now, wakeAt, webhookSecret, secretKey, applied,
                   workers>>

\* lines 326-328: if changed: save_users(users); time.sleep(3600)
sweep_save ==
    /\ sweeper.pc = "scanned"
    /\ users' = IF sweeper.changed
                THEN save_users(users, sweeper.users, NoFault)
                ELSE users
    /\ sweeper' = SweeperAsleep
    /\ wakeAt' = now + SweepInterval
    /\ sent' = <<>>
    /\ last' = [NoRequest("sweep_save") EXCEPT
                  !.save = IF sweeper.changed THEN "ok" ELSE "none"]
    /\ UNCHANGED <<now, webhookSecret, secretKey, expiryNoted, reminderNoted,
                   applied, workers>>

\* one subscriber: payments, links, the expiry checker, time
Next ==
    \/ webhook_paystack(PaymentRequests, PlainGateway, {NoFault})
    \/ link_request(LinkBodies, {NoFault})
    \/ expiry_checker_loop({NoFault})
    \/ clock_advance

Spec == Init /\ [][Next]_vars

\* the three payment endpoints under every request and gateway outcome
NextHooks ==
    \/ webhook_paystack(Requests, GatewayOutcomes, {NoFault})
    \/ legacy_webhook(Requests, GatewayOutcomes, {NoFault})
    \/ paystack_redirect({"R1", Absent}, GatewayOutcomes, {NoFault})

SpecHooks == InitHooks /\ [][NextHooks]_vars

\* two subscribers: payments, links, the expiry checker, time
NextLedger ==
    \/ webhook_paystack(LedgerRequests, PlainGateway, {NoFault})
    \/ link_request(BotLinkBodies, {NoFault})
    \/ expiry_checker_loop({NoFault})
    \/ clock_advance

SpecLedger == Init /\ [][NextLedger]_vars

\* two subscribers, with reads and writes of users.json that may fail
NextFaults ==
    \/ webhook_paystack(FaultRequests, {Confirming}, Faults)
    \/ link_request(FaultLinkBodies, Faults)
    \/ expiry_checker_loop(Faults)
    \/ clock_advance

SpecFaults == Init /\ [][NextFaults]_vars

\* two subscribers: payments and links while the expiry checker thread
\* is anywhere in its pass
NextSweep ==
    \/ webhook_paystack(FaultRequests, {Confirming}, {NoFault})
    \/ link_request(FaultLinkBodies, {NoFault})
    \/ sweep_load
    \/ sweep_scan
    \/ sweep_save
    \/ clock_advance

SpecSweep == Init /\ [][NextSweep]_vars

\* two subscribers over unbounded time, with notification posts that may
\* fail; the expiry checker thread and the clock keep running
NextLive ==
    \/ webhook_paystack(FaultRequests, {Confirming}, {NoFault})
    \/ link_request(FaultLinkBodies, {NoFault})
    \/ expiry_checker_loop(NotifyFaults)
    \/ clock_advance
    \/ clock_beyond

SpecLive ==
    /\ Init /\ [][NextLive]_vars
    /\ WF_vars(expiry_checker_loop(NotifyFaults))
    /\ WF_vars(clock_advance)
    /\ WF_vars(clock_beyond)

\* two subscribers, with writes of users.json and notification posts
\* that may fail
NextNotify ==
    \/ webhook_paystack(FaultRequests, {Confirming}, PostFaults)
    \/ link_request(FaultLinkBodies, PostFaults)
    \/ expiry_checker_loop(PostFaults)
    \/ clock_advance

SpecNotify == Init /\ [][NextNotify]_vars

\* two request threads granting at the same time
NextRace ==
    \/ \E w \in Workers : grant_load(w, GrantCalls)
    \/ \E w \in Workers : grant_save(w)
    \/ \E w \in Workers : grant_return(w)

SpecRace == Init /\ [][NextRace]_vars

(***************************************************************************)
(* Properties                                                              *)
(***************************************************************************)
\* the step described by l applied a grant
IsGrant(l) == l.op \in {"webhook", "legacy", "redirect"} /\ l.action # Absent

\* the length of the entitlement window of a plan, in seconds
WindowOf(plan) ==
    IF plan = "daily" THEN DAILY_PLAN_DURATION * SecondsPerDay
    ELSE WEEKEND_PLAN_DURATION * SecondsPerDay

\* C1: applying the same payment event (same reference, email and amount)
\* a second time is a no-op: the ledger is unchanged and no second grant
\* notification is emitted.
C1_SecondApplicationIsNoOp ==
    [][(/\ IsGrant(last) /\ IsGrant(last')
        /\ last'.reference = last.reference
        /\ last'.email = last.email
        /\ last'.amount = last.amount)
       => (users' = users /\ sent' = <<>>)]_vars

\* C2: for every email with a record, the record stays and its expires_at
\* never decreases in any step (grant, link, expiry pass, clock).
C2_ExpiryMonotonic ==
    [][\A e \in Emails :
          HasRecord(users, e) =>
            /\ HasRecord(users', e)
            /\ RecordOf(users', e).expires_at >= RecordOf(users, e).expires_at]_vars

\* C2 witness: a renewal with the shorter plan left the later, existing
\* expiry in place.
C2_Witness ==
    /\ IsGrant(last) /\ last.action = "renewed" /\ last.plan = "weekend"
    /\ RecordOf(users, last.email).expires_at > now + WindowOf("weekend")

\* C3: a grant applied to a record with expires_at > now sets expires_at to
\* max(existing expires_at, now + window(plan)), reports "renewed", sets
\* active, takes plan and reference from the event and keeps chat_id.
C3_RenewalUsesMax ==
    [][(/\ IsGrant(last')
        /\ HasRecord(users, last'.email)
        /\ RecordOf(users, last'.email).expires_at > now)
       => LET old == RecordOf(users, last'.email)
              new == RecordOf(users', last'.email)
          IN  /\ new.expires_at = Max(old.expires_at, now + WindowOf(last'.plan))
              /\ last'.action = "renewed"
              /\ new.active
              /\ new.plan = last'.plan
              /\ new.paystack_reference = last'.reference
              /\ new.chat_id = old.chat_id]_vars

\* C3 witness: a linked record renewed while its remaining time exceeded
\* zero and the new window reached beyond the old expiry.
C3_Witness ==
    /\ IsGrant(last) /\ last.action = "renewed" /\ last.plan = "daily"
    /\ now > StartTime
    /\ RecordOf(users, last.email).chat_id # NoChat
    /\ RecordOf(users, last.email).expires_at = now + WindowOf("daily")

\* C4: a grant applied to an email without record, or whose record has
\* expires_at <= now, stores expires_at = now + window(plan), active,
\* the event's reference, and reports "activated".
C4_ActivationFromNow ==
    [][(/\ IsGrant(last')
        /\ \/ ~HasRecord(users, last'.email)
           \/ RecordOf(users, last'.email).expires_at <= now)
       => /\ HasRecord(users', last'.email)
          /\ LET new == RecordOf(users', last'.email)
             IN  /\ new.expires_at = now + WindowOf(last'.plan)
                 /\ new.active
                 /\ new.paystack_reference = last'.reference
                 /\ new.plan = last'.plan
                 /\ last'.action = "activated"]_vars

\* C4 witness: a record deactivated by the expiry checker was activated
\* again by a new payment.
C4_Witness ==
    /\ IsGrant(last) /\ last.action = "activated" /\ last.prior = "expired"
    /\ RecordOf(users, last.email).active
    /\ RecordOf(users, last.email).expires_at = now + WindowOf(last.plan)

\* C5 as stated: without plan metadata the plan is daily exactly when the
\* amount, in the units the payload carries it, is at least the threshold.
C5_PlanFromRawAmount ==
    (IsGrant(last) /\ ~last.has_plan)
        => (last.plan = "daily" <=> last.amount >= DAILY_PLAN_AMOUNT)

\* C5 amended: without plan metadata the plan applied and stored is daily
\* exactly when the amount divided by 100 (minor units converted to major
\* units, rounded down) is at least the threshold, and weekend otherwise.
C5_PlanFromConvertedAmount ==
    (IsGrant(last) /\ ~last.has_plan)
        => /\ last.plan = IF last.amount \div 100 >= DAILY_PLAN_AMOUNT
                          THEN "daily" ELSE "weekend"
           /\ RecordOf(users, last.email).plan = last.plan

\* C5 witness: on an empty ledger an event of 5000000 minor units, with the
\* threshold at 50000, created a daily record.
C5_Witness ==
    /\ IsGrant(last) /\ ~last.has_plan /\ last.prior = "none"
    /\ last.amount = 5000000 /\ DAILY_PLAN_AMOUNT = 50000
    /\ Len(users) = 1 /\ users[1].plan = "daily"

\* the notifications of kind k about email e among the notes ns
NotesOf(ns, k, e) == {i \in 1..Len(ns) : ns[i].kind = k /\ ns[i].email = e}
Reminders(ns, e) == NotesOf(ns, "reminder", e) \cup NotesOf(ns, "expires_soon", e)

\* C6: a pass of the expiry checker deactivates every record that is active
\* with expires_at <= now and emits exactly one expiry notification for it,
\* and no record gets a second expiry notification in the same entitlement
\* window (since its last grant).
C6_OneExpiryPerWindow ==
    [][last'.op = "sweep" =>
        \A e \in Emails :
            /\ (HasRecord(users, e) /\ RecordOf(users, e).active
                    /\ RecordOf(users, e).expires_at <= now)
                => /\ ~RecordOf(users', e).active
                   /\ Cardinality(NotesOf(sent', "expired", e)) = 1
            /\ NotesOf(sent', "expired", e) # {} => ~expiryNoted[e]]_vars

\* C7: a record in the alert window gets a reminder from a pass of the
\* expiry checker exactly when none was sent before in this entitlement
\* window: one reminder per window, not one per pass.
C7_OneReminderPerWindow ==
    [][last'.op = "sweep" =>
        \A e \in Emails :
            (/\ HasRecord(users, e) /\ RecordOf(users, e).active
             /\ 0 < RecordOf(users, e).expires_at - now
             /\ RecordOf(users, e).expires_at - now
                    <= EXPIRY_ALERT_DAYS * SecondsPerDay)
            => (Reminders(sent', e) # {} <=> ~reminderNoted[e])]_vars

\* some record holds the reference
Held(us, reference) == \E i \in 1..Len(us) : us[i].paystack_reference = reference

\* C8: a link request with a chat id and a reference that some record holds
\* sets chat_id and active on the first such record only, leaves everything
\* else as it was and answers 200 with that record's email; when no record
\* holds the reference it answers 404 and leaves the ledger as it was.
C8_LinkFirstMatchOnly ==
    [][(last'.op = "link" /\ last'.chat # NoChat /\ last'.reference # Absent)
       => IF Held(users, last'.reference)
          THEN \E i \in 1..Len(users) :
                 /\ users[i].paystack_reference = last'.reference
                 /\ \A j \in 1..(i - 1) :
                        users[j].paystack_reference # last'.reference
                 /\ users' = [users EXCEPT ![i].chat_id = last'.chat,
                                           ![i].active = TRUE]
                 /\ last'.code = 200
                 /\ last'.email = users[i].email
          ELSE last'.code = 404 /\ users' = users]_vars

\* C8 witness: two records held the reference and only the first was linked.
C8_Witness ==
    /\ last.op = "link" /\ last.code = 200 /\ Len(users) = 2
    /\ users[1].paystack_reference = last.reference
    /\ users[2].paystack_reference = last.reference
    /\ users[1].chat_id = last.chat /\ users[1].email = last.email
    /\ users[2].chat_id = NoChat

\* reference r was granted to email e and a later grant to e carried
\* another reference
Superseded(e, r) ==
    \E k \in 2..Len(applied[e]) : applied[e][k] = r

\* C9: once a later grant with another reference was applied to an email, a
\* link request with the earlier reference, which no other record holds,
\* answers 404 and changes nothing.
C9_EarlierReferenceUnlinkable ==
    [][\A e \in Emails :
          (/\ last'.op = "link" /\ last'.chat # NoChat
           /\ Superseded(e, last'.reference)
           /\ \A i \in 1..Len(users) :
                 users[i].email # e
                    => users[i].paystack_reference # last'.reference)
          => (last'.code = 404 /\ users' = users /\ sent' = <<>>)]_vars

\* C9 witness: R1 then R2 were granted to a@x.com, and the link request
\* with R1 was answered 404.
C9_Witness ==
    /\ last.op = "link" /\ last.code = 404 /\ last.reference = "R1"
    /\ applied["a@x.com"] = <<"R2", "R1">>
    /\ RecordOf(users, "a@x.com").paystack_reference = "R2"

\* the signature check fails: a secret is configured and the header is not
\* the HMAC of the body under it
SigFails(l) == webhookSecret /\ ~l.sig_match

\* a charge.success event with reference and email that passes the
\* signature check
ValidCharge(l) ==
    /\ ~SigFails(l) /\ l.shape = "event" /\ l.etype = "charge.success"
    /\ l.has_ref /\ l.has_email

\* C10: on both webhook endpoints a request failing the signature check, an
\* empty payload and a charge.success event without reference or email are
\* answered 400, an event of another type passing the signature check is
\* answered 200 "ignored", and none of them changes the ledger or sends a
\* notification; a grant is applied only for a valid charge.success event
\* and is answered 200, and without gateway key every valid event is
\* applied; without webhook secret no signature is refused.
C10_RejectedRequestsChangeNothing ==
    [][last'.op \in {"webhook", "legacy"} =>
        LET l == last'
            malformed == \/ SigFails(l)
                         \/ l.shape = "empty"
                         \/ /\ l.shape = "event" /\ l.etype = "charge.success"
                            /\ (~l.has_ref \/ ~l.has_email)
            other == ~SigFails(l) /\ l.shape = "event"
                        /\ l.etype # "charge.success"
        IN  /\ malformed => l.code = 400
            /\ other => (l.code = 200 /\ l.body = "ignored")
            /\ (malformed \/ other) => (users' = users /\ sent' = <<>>)
            /\ IsGrant(l) => (ValidCharge(l) /\ l.code = 200 /\ l.body = "ok")
            /\ (ValidCharge(l) /\ ~secretKey) => IsGrant(l)
            /\ ~webhookSecret => l.body # "Invalid signature"]_vars

\* C10 witness: with a secret configured, a well-formed charge.success event
\* whose signature did not match was answered 400 on a ledger that already
\* held a record.
C10_Witness ==
    /\ webhookSecret /\ last.op \in {"webhook", "legacy"}
    /\ ~last.sig_match /\ last.shape = "event"
    /\ last.etype = "charge.success" /\ last.has_ref /\ last.has_email
    /\ last.code = 400 /\ Len(users) > 0 /\ sent = <<>>

\* the step described by l is a request to one of the payment endpoints
IsPayment(l) == l.op \in {"webhook", "legacy", "redirect"}

\* C11: with PAYSTACK_SECRET_KEY configured, a request whose
\* verify-by-reference call raises or answers without success is answered
\* with an error, applies no grant, sends nothing and leaves the ledger as
\* it was; a grant is applied only after a call that answered success, to
\* the email the gateway returned and, when the event carries no plan
\* metadata, with the plan of the amount the gateway returned
C11_GatewayFailClosed ==
    [][LET l == last'
       IN  /\ (IsPayment(l) /\ l.gw \in {"raise", "failed"}) =>
                  /\ users' = users
                  /\ ~IsGrant(l)
                  /\ l.code \in {400, 500}
                  /\ sent' = <<>>
           /\ (IsGrant(l) /\ secretKey) =>
                  /\ l.gw = "success"
                  /\ l.gw_email # Absent =>
                        /\ l.email = l.gw_email
                        /\ HasRecord(users', l.gw_email)
                        /\ RecordOf(users', l.gw_email).paystack_reference
                             = l.reference
                        /\ l.ev_email \notin {Absent, l.gw_email} =>
                              (HasRecord(users', l.ev_email)
                                 <=> HasRecord(users, l.ev_email))
                  /\ (l.gw_amount # NoAmount /\ ~l.has_plan) =>
                        l.plan = plan_of_amount(l.gw_amount \div 100)
      ]_vars

\* a webhook event for a@x.com with the minor amount 50000, verified by the
\* gateway as a payment of 5000000 by b@x.com: the only record is b's, daily
C11_Witness ==
    /\ secretKey /\ last.op = "webhook" /\ IsGrant(last)
    /\ last.gw = "success"
    /\ last.ev_email = "a@x.com" /\ last.gw_email = "b@x.com"
    /\ last.ev_amount = 50000 /\ last.gw_amount = 5000000
    /\ Len(users) = 1 /\ users[1].email = "b@x.com"
    /\ users[1].plan = "daily"

\* C12: GET /paystack_redirect changes the ledger exactly when a reference
\* is given, PAYSTACK_SECRET_KEY is configured and the gateway answers
\* success with an email: the answer is then 200 with the grant already
\* saved for that email under that reference; on every other outcome the
\* ledger is unchanged and nothing is sent
C12_RedirectGrantsOnlyVerified ==
    [][LET l == last'
           verified == /\ secretKey /\ l.has_ref
                       /\ l.gw = "success" /\ l.gw_email # Absent
       IN  l.op = "redirect" =>
             /\ verified =>
                   /\ IsGrant(l) /\ l.code = 200
                   /\ l.email = l.gw_email
                   /\ HasRecord(users', l.email)
                   /\ RecordOf(users', l.email).paystack_reference = l.reference
                   /\ RecordOf(users', l.email).active
                   /\ RecordOf(users', l.email).expires_at > now
                   /\ Len(sent') = 1 /\ sent'[1].kind = "granted"
             /\ ~verified =>
                   /\ users' = users
                   /\ ~IsGrant(l)
                   /\ sent' = <<>>
      ]_vars

\* the redirect of a verified payment has created the record of b@x.com
C12_Witness ==
    /\ last.op = "redirect" /\ IsGrant(last) /\ last.code = 200
    /\ last.gw = "success" /\ last.gw_email = "b@x.com"
    /\ last.reference = "R1"
    /\ HasRecord(users, "b@x.com")
    /\ RecordOf(users, "b@x.com").paystack_reference = "R1"

\* the write of the step described by l raised
SaveFailed(l) == l.save \in {"fail_intact", "fail_truncated"}

\* C13: a step whose write of users.json does not fail (a grant, a link, a
\* pass of the expiry checker, with or without a failing load) keeps every
\* record of the ledger
C13_RecordsNeverRemoved ==
    [][~SaveFailed(last') =>
          \A e \in Emails : HasRecord(users, e) => HasRecord(users', e)
      ]_vars

\* C14: a payment request whose grant fails to be written is answered 500,
\* sends no grant notification and leaves no grant in the ledger
C14_SaveFailureSurfaces ==
    [][LET l == last'
       IN  (IsPayment(l) /\ SaveFailed(l)) =>
              /\ l.code = 500
              /\ ~IsGrant(l)
              /\ sent' = <<>>
              /\ users' \in {users, <<>>}
      ]_vars

\* the grant of b@x.com could not be written: 500, nothing sent, no record
C14_Witness ==
    /\ last.op = "webhook" /\ SaveFailed(last)
    /\ last.email = "b@x.com" /\ last.code = 500
    /\ sent = <<>> /\ ~HasRecord(users, "b@x.com")
    /\ HasRecord(users, "a@x.com")

\* C15: when two request threads have both saved their grant_or_renew and
\* not yet answered, for different emails, the ledger holds a record of
\* each of the two emails under the reference granted
C15_ConcurrentGrantsBothKept ==
    \A w, v \in Workers :
        (/\ workers[w].pc = "saved" /\ workers[v].pc = "saved"
         /\ workers[w].email # workers[v].email) =>
            /\ HasRecord(users, workers[w].email)
            /\ HasRecord(users, workers[v].email)

\* C16: the save that ends a pass of the expiry checker keeps every record
\* of the persisted ledger with its expires_at, paystack_reference and
\* chat_id, and changes active only from true to false
C16_SweepSaveKeepsLaterWrites ==
    [][last'.op = "sweep_save" =>
          \A e \in Emails : HasRecord(users, e) =>
              /\ HasRecord(users', e)
              /\ RecordOf(users', e).expires_at = RecordOf(users, e).expires_at
              /\ RecordOf(users', e).paystack_reference
                   = RecordOf(users, e).paystack_reference
              /\ RecordOf(users', e).chat_id = RecordOf(users, e).chat_id
              /\ RecordOf(users', e).active => RecordOf(users, e).active
      ]_vars

\* C20: when the loop of a pass has emitted its expiry notifications, the
\* persisted record of each of them is inactive
C20_DeactivationPersistedFirst ==
    last.op = "sweep_scan" =>
        \A k \in 1..Len(sent) :
            sent[k].kind = "expired" =>
                /\ HasRecord(users, sent[k].email)
                /\ ~RecordOf(users, sent[k].email).active

\* C17: a record that is inactive with expires_at <= now becomes active
\* only by a grant for its email
C17_ReactivationOnlyByGrant ==
    [][\A e \in Emails :
          (/\ HasRecord(users, e)
           /\ ~RecordOf(users, e).active
           /\ RecordOf(users, e).expires_at <= now
           /\ HasRecord(users', e)
           /\ RecordOf(users', e).active) =>
              (IsGrant(last') /\ last'.email = e)
      ]_vars

\* active is true exactly when the window of the record has not elapsed
Reconciled(u, t) == u.active <=> u.expires_at > t

\* C18: right after a grant the granted record, and right after a pass of
\* the expiry checker every record, has active = true exactly when its
\* expires_at is later than now
C18_ReconciledAfterGrantOrSweep ==
    [][LET l == last'
       IN  /\ IsGrant(l) =>
                /\ HasRecord(users', l.email)
                /\ Reconciled(RecordOf(users', l.email), now)
                /\ RecordOf(users', l.email).active
           /\ l.op = "sweep" =>
                \A i \in 1..Len(users') : Reconciled(users'[i], now)
      ]_vars

\* a pass has just deactivated a record whose window elapsed at this very
\* second and left a live record active
C18_Witness ==
    /\ last.op = "sweep"
    /\ \E i, j \in 1..Len(users) :
          /\ ~users[i].active /\ users[i].expires_at = now
          /\ users[j].active /\ users[j].expires_at > now
    /\ \E k \in 1..Len(sent) : sent[k].kind = "expired"

\* the record of e is active although its window has elapsed
Lapsed(e) ==
    /\ HasRecord(users, e)
    /\ RecordOf(users, e).active
    /\ RecordOf(users, e).expires_at <= now

\* the record of e is persisted inactive, or a grant has renewed it
Settled(e) ==
    /\ HasRecord(users, e)
    /\ \/ ~RecordOf(users, e).active
       \/ RecordOf(users, e).expires_at > now

\* C19: with the expiry checker thread and the clock running, a record
\* that is active with expires_at <= now is eventually persisted with
\* active = false unless a grant renews it, and the expiry checker passes
\* again and again whether or not its notification posts fail
C19_LapsedEventuallyDeactivated ==
    /\ \A e \in Emails : Lapsed(e) ~> Settled(e)
    /\ []<>(last.op = "sweep")

\* a pass whose notification posts failed has deactivated a lapsed record
C19_Witness ==
    /\ last.op = "sweep" /\ last.notify = "fail" /\ last.save = "ok"
    /\ sweeper.pc = "sleep"
    /\ \E k \in 1..Len(sent) :
          /\ sent[k].kind = "expired"
          /\ ~RecordOf(users, sent[k].email).active
          /\ RecordOf(users, sent[k].email).expires_at <= now

\* C21: a payment request or a link attempts its notification only after
\* its save has succeeded, with the updated record in the persisted
\* ledger; when the post fails the ledger is the one a successful post
\* leaves and the request is answered 200 all the same
C21_NotificationAfterSaveAndSwallowed ==
    [][LET l == last'
           granted == grant_or_renew(users, now, l.email, l.plan, l.reference)
           linked == link_telegram(users, l.chat, l.reference)
       IN  /\ (IsPayment(l) /\ sent' # <<>>) =>
                 /\ l.save = "ok"
                 /\ users' = granted.users
                 /\ sent' = <<Note("granted", l.email, granted.action)>>
           /\ (l.op = "link" /\ sent' # <<>>) =>
                 /\ l.save = "ok"
                 /\ users' = linked.users
                 /\ RecordOf(users', l.email).chat_id = l.chat
           /\ (IsPayment(l) /\ l.notify = "fail") =>
                 /\ users' = granted.users
                 /\ l.code = 200 /\ l.body = "ok"
                 /\ l.action = granted.action
           /\ (l.op = "link" /\ l.notify = "fail") =>
                 /\ users' = linked.users
                 /\ l.code = 200 /\ l.body = "linked"
      ]_vars

\* the post of the link message failed: the chat is linked, the answer 200
C21_Witness ==
    /\ last.op = "link" /\ last.notify = "fail" /\ last.code = 200
    /\ last.email = "b@x.com"
    /\ RecordOf(users, "b@x.com").chat_id = 123
    /\ HasRecord(users, "a@x.com")

\* the pass whose notifications are ns has sent a reminder about e: to the
\* linked chat, or to the admin when the record has no chat_id
Reminded(ns, e) ==
    \E k \in 1..Len(ns) :
        ns[k].email = e /\ ns[k].kind \in {"reminder", "expires_soon"}

\* C22: a pass of the expiry checker sends a reminder about a record
\* exactly when the record is active and 0 < expires_at - now <= the alert
\* window, and it leaves every such record as it was
C22_ReminderIffInWindow ==
    [][last'.op = "sweep" =>
          \A i \in 1..Len(users) :
              LET u == users[i]
                  due == /\ u.active
                         /\ 0 < u.expires_at - now
                         /\ u.expires_at - now <= EXPIRY_ALERT_DAYS * SecondsPerDay
              IN  /\ Reminded(sent', u.email) <=> due
                  /\ due => (Len(users') = Len(users) /\ users'[i] = u)
      ]_vars

\* a pass has reminded the linked chat of a record inside the window
C22_Witness ==
    /\ last.op = "sweep"
    /\ \E k \in 1..Len(sent) :
          /\ sent[k].kind = "reminder"
          /\ RecordOf(users, sent[k].email).active
          /\ RecordOf(users, sent[k].email).chat_id # NoChat
          /\ RecordOf(users, sent[k].email).expires_at > now
          /\ RecordOf(users, sent[k].email).expires_at - now
               <= EXPIRY_ALERT_DAYS * SecondsPerDay

\* C23: the plan of every record of the ledger is daily or weekend
C23_PlanIsDailyOrWeekend ==
    \A i \in 1..Len(users) : users[i].plan \in {"daily", "weekend"}

\* C24: a record is created without chat_id, and the chat_id of a linked
\* record changes only by a link request answered 200
C24_ChatIdKeptUntilRelinked ==
    [][\A e \in Emails :
          /\ (~HasRecord(users, e) /\ HasRecord(users', e)) =>
                RecordOf(users', e).chat_id = NoChat
          /\ (/\ HasRecord(users, e)
              /\ RecordOf(users, e).chat_id # NoChat
              /\ HasRecord(users', e)
              /\ RecordOf(users', e).chat_id # RecordOf(users, e).chat_id) =>
                (last'.op = "link" /\ last'.code = 200)
      ]_vars

====
